---- MODULE Spec2Model ----
(***************************************************************************)
(* Model of the Bosankai API (src/main.py): six SQLite tables, the media   *)
(* directory, and the FastAPI handlers that write and read them.           *)
(*                                                                         *)
(* Text values that SQLite orders (visit_date, created_at) are sequences   *)
(* of character codes compared as SQLite's BINARY collation compares them. *)
(* File names and content types are sequences of tokens with "." and "/"   *)
(* as separator tokens.  An Optional[str] of a response is <<>> for None   *)
(* and <<s>> for the string s.                                             *)
(***************************************************************************)
EXTENDS Integers, Sequences, FiniteSets, TLC

VARIABLES
    visits,           \* committed rows of table visits, in rowid order
    visit_media,      \* committed rows of table visit_media
    donations,        \* committed rows of table donations
    memories,         \* committed rows of table memories
    memory_media,     \* committed rows of table memory_media
    memory_comments,  \* committed rows of table memory_comments
    disk,             \* files under MEDIA_ROOT: path -> bytes
    lock,             \* worker holding SQLite's write lock, 0 when free
    req,              \* per worker: the request it is in the middle of
    last,             \* the request answered by the latest step and its response
    nextId,           \* number of uuid4 values drawn so far
    avatar_urls,      \* per community id: photo_url values answered so far
    creations         \* per visit or memory id: the parts sent and the outcome

vars == <<visits, visit_media, donations, memories, memory_media,
          memory_comments, disk, lock, req, last, nextId, avatar_urls,
          creations>>

tables == <<visits, visit_media, donations, memories, memory_media,
            memory_comments>>

(* ------------------------------ bounds --------------------------------- *)

MaxIds == 3
MaxCreates == 2
MaxParts == 3

Workers == {1, 2}

\* the worker that serves when requests come one at a time
Sequential == {1}

\* SQLite admits one write transaction at a time, so one worker stands for
\* the writers; the other one reads next to it
Writers == {1}
Readers == {2}

Communities == {"c1", "c2"}
Times == {[sec |-> 0, usec |-> 0], [sec |-> 0, usec |-> 5]}
OptionalTexts == {"", "x"}

\* a visit date with the moment the visit is posted
VisitStamps ==
    {[visit_date |-> <<50>>, now |-> [sec |-> 0, usec |-> 0]],
     [visit_date |-> <<50>>, now |-> [sec |-> 0, usec |-> 5]],
     [visit_date |-> <<50, 48>>, now |-> [sec |-> 0, usec |-> 0]]}

\* who posts a memory, with the moment it is posted
MemoryStamps ==
    {[created_by |-> "", now |-> [sec |-> 0, usec |-> 0]],
     [created_by |-> "", now |-> [sec |-> 0, usec |-> 5]],
     [created_by |-> "x", now |-> [sec |-> 0, usec |-> 0]]}

Clip == [filename |-> <<"b", ".", "MP4">>, content_type |-> <<"video", "/", "mp4">>, bytes |-> 2]
Untyped == [filename |-> <<"c", ".", "mp4">>, content_type |-> <<>>, bytes |-> 3]
Unnamed == [filename |-> <<>>, content_type |-> <<>>, bytes |-> 4]
Uploads == {Clip, Untyped, Unnamed}

UploadLists == UNION {[1..n -> Uploads] : n \in 0..MaxParts}

AvatarCommunities == {<<"c1">>, <<"a", "/", "b">>, <<"a", "_", "b">>, <<>>}
AvatarPhotos ==
    {[filename |-> <<"a", ".", "jpg">>, bytes |-> 1],
     [filename |-> <<"b", ".", "PNG">>, bytes |-> 2],
     [filename |-> <<"c">>, bytes |-> 3]}

(* ------------------------------ helpers -------------------------------- *)

None == <<>>

Some(s) == <<s>>

\* `value or None` on a str (lines 390, 392, 477, 569)
OrNone(s) == IF s = "" THEN None ELSE Some(s)

\* uuid.uuid4().hex: the n-th value drawn, distinct from every other
Uuid(n) == n

\* datetime.isoformat(): the fraction is printed only when it is not zero
IsoFormat(t) ==
    IF t.usec = 0 THEN <<48 + t.sec>> ELSE <<48 + t.sec, 46, 48 + t.usec>>

\* SQLite BINARY collation on TEXT: memcmp, the shorter string first on a tie
RECURSIVE TextLess(_, _)
TextLess(a, b) ==
    IF b = <<>> THEN FALSE
    ELSE IF a = <<>> THEN TRUE
    ELSE IF Head(a) # Head(b) THEN Head(a) < Head(b)
    ELSE TextLess(Tail(a), Tail(b))

Idle == [op |-> "idle"]

\* the record of what was sent for entity id and how its request has ended
Recorded(id, media, parts, outcome) ==
    [i \in DOMAIN creations \cup {id} |->
        IF i = id THEN [media |-> media, parts |-> parts, outcome |-> outcome]
        ELSE creations[i]]

\* the number of parts sent with all creates so far
PartsSent ==
    LET sent[n \in 0..nextId] ==
            IF n = 0 THEN 0
            ELSE sent[n - 1] + (IF n - 1 \in DOMAIN creations
                                THEN creations[n - 1].parts ELSE 0)
    IN  sent[nextId]

NoResponse == [op |-> "none", status |-> 0]

(* --------------------------- SQL statements ---------------------------- *)

\* the WHERE clause left out
CommunityIgnored(r, community_id) == TRUE

\* WHERE community_id = ?
CommunityMatches(r, community_id) == r.community_id = community_id

\* ORDER BY v.visit_date DESC, v.created_at ASC
VisitBeforeOldestFirst(a, b) ==
    \/ TextLess(b.visit_date, a.visit_date)
    \/ a.visit_date = b.visit_date /\ TextLess(a.created_at, b.created_at)

\* ORDER BY v.visit_date DESC, v.created_at DESC
VisitBefore(a, b) ==
    \/ TextLess(b.visit_date, a.visit_date)
    \/ a.visit_date = b.visit_date /\ TextLess(b.created_at, a.created_at)

\* ORDER BY created_at DESC
CreatedDesc(a, b) == TextLess(b.created_at, a.created_at)

\* ORDER BY created_at ASC
CreatedAsc(a, b) == TextLess(a.created_at, b.created_at)

\* the ORDER BY clause of each list query
Precedes(order, a, b) ==
    CASE order = "visit_date DESC, created_at DESC" -> VisitBefore(a, b)
      [] order = "created_at DESC" -> CreatedDesc(a, b)
      [] order = "created_at ASC" -> CreatedAsc(a, b)

\* r placed after every row of sorted that it does not precede
Insert(r, sorted, order) ==
    LET n == Cardinality({i \in DOMAIN sorted : ~Precedes(order, r, sorted[i])})
    IN  SubSeq(sorted, 1, n) \o <<r>> \o SubSeq(sorted, n + 1, Len(sorted))

\* ORDER BY: rows that compare equal stay in rowid order
OrderBy(rows, order) ==
    LET sorted[n \in 0..Len(rows)] ==
            IF n = 0 THEN <<>> ELSE Insert(rows[n], sorted[n - 1], order)
    IN  sorted[Len(rows)]

SelectVisits(community_id) ==
    OrderBy(SelectSeq(visits, LAMBDA r : CommunityMatches(r, community_id)),
            "visit_date DESC, created_at DESC")

SelectDonations(community_id) ==
    OrderBy(SelectSeq(donations, LAMBDA r : CommunityMatches(r, community_id)),
            "created_at DESC")

SelectMemories(community_id) ==
    OrderBy(SelectSeq(memories, LAMBDA r : CommunityMatches(r, community_id)),
            "created_at DESC")

SelectMemoryComments(community_id) ==
    OrderBy(SelectSeq(memory_comments, LAMBDA r : CommunityMatches(r, community_id)),
            "created_at ASC")

\* SELECT community_id FROM visits WHERE id = ?  (fetchone)
VisitRow(visit_id) == SelectSeq(visits, LAMBDA r : r.id = visit_id)

\* SELECT community_id FROM memories WHERE id = ?  (fetchone)
MemoryRow(memory_id) == SelectSeq(memories, LAMBDA r : r.id = memory_id)

(* ----------------------------- media store ----------------------------- *)

\* str.lower() on the tokens that occur
Lower(tok) ==
    CASE tok = "JPG" -> "jpg"
      [] tok = "MP4" -> "mp4"
      [] tok = "PNG" -> "png"
      [] OTHER -> tok

Max(S) == IF S = {} THEN 0 ELSE CHOOSE x \in S : \A y \in S : y <= x

\* os.path.splitext(p)[1]: from the last "." after the last "/", unless only
\* dots come before it in that component
SplitExt(p) ==
    LET sepIndex == Max({i \in DOMAIN p : p[i] = "/"})
        dotIndex == Max({i \in DOMAIN p : p[i] = "."})
    IN  IF /\ dotIndex > sepIndex
           /\ \E i \in (sepIndex + 1)..(dotIndex - 1) : p[i] # "."
        THEN SubSeq(p, dotIndex, Len(p))
        ELSE <<>>

\* the extension a stored file gets (lines 125-129, 148-151)
StoredExt(filename, fallback) ==
    LET ext == SplitExt(filename)
    IN  [i \in DOMAIN (IF ext = <<>> THEN fallback ELSE ext) |->
            Lower((IF ext = <<>> THEN fallback ELSE ext)[i])]

\* str.replace("/", "_")
ReplaceSlash(s) == [i \in DOMAIN s |-> IF s[i] = "/" THEN "_" ELSE s[i]]

\* the random token left out of the name
UploadFilenameNoToken(upload, prefix, token) ==
    [prefix |-> prefix, token |-> 0, ext |-> StoredExt(upload.filename, <<".", "bin">>)]

\* f"{safe_prefix}_{token}{ext}" (line 133); the prefix is a uuid hex, which
\* holds no "/"
UploadFilename(upload, prefix, token) ==
    [prefix |-> prefix, token |-> token, ext |-> StoredExt(upload.filename, <<".", "bin">>)]

\* f"{safe_id}{ext}" (line 154)
AvatarFilename(upload, community_id) ==
    ReplaceSlash(community_id) \o StoredExt(upload.filename, <<".", "jpg">>)

\* os.path.join(MEDIA_ROOT, subdir, filename), relative to MEDIA_ROOT
FilePath(subdir, filename) == <<subdir, filename>>

\* f"/media/{subdir}/{filename}"
UrlPath(subdir, filename) == <<"/media", subdir, filename>>

\* open(file_path, "wb"); f.write(upload.file.read())
WriteFile(d, path, bytes) == [q \in DOMAIN d \cup {path} |-> IF q = path THEN bytes ELSE d[q]]

\* open(file_path, "wb") followed by a write that fails: the file is left empty
TruncateFile(d, path) == WriteFile(d, path, 0)

\* the StaticFiles mount of MEDIA_ROOT at /media (line 224)
StaticFile(url) ==
    IF url[1] = "/media" /\ <<url[2], url[3]>> \in DOMAIN disk
    THEN disk[<<url[2], url[3]>>]
    ELSE -1

\* content_type = up.content_type or ""; content_type.startswith("video/")
MediaType(upload) ==
    IF /\ Len(upload.content_type) >= 2
       /\ upload.content_type[1] = "video"
       /\ upload.content_type[2] = "/"
    THEN "video" ELSE "image"

(* ------------------------------- visits -------------------------------- *)

\* An uncaught exception in a handler: FastAPI answers 500 and the connection
\* is dropped without commit, which rolls its transaction back.  The record
\* keeps the id the handler had drawn and the parts it had stored.
InternalError(op, r) ==
    [op |-> op, args |-> r.args, status |-> 500, id |-> r.row.id, stored |-> r.media_out]

\* the connection in autocommit mode: the row is visible as soon as inserted
create_visit_insert_autocommit(w, community_id, visit_date, visitor_name, kind, message, media, now) ==
    /\ req[w] = Idle
    /\ lock = 0
    /\ lock' = w
    /\ nextId' = nextId + 1
    /\ visits' = Append(visits,
          [id |-> Uuid(nextId), community_id |-> community_id,
           visit_date |-> visit_date, visitor_name |-> visitor_name,
           kind |-> kind, message |-> message, created_at |-> IsoFormat(now)])
    /\ req' = [req EXCEPT ![w] =
          [op |-> "create_visit",
           args |-> [community_id |-> community_id, visit_date |-> visit_date,
                     visitor_name |-> visitor_name, kind |-> kind,
                     message |-> message, media |-> media],
           row |-> [id |-> Uuid(nextId), community_id |-> community_id,
                    visit_date |-> visit_date, visitor_name |-> visitor_name,
                    kind |-> kind, message |-> message,
                    created_at |-> IsoFormat(now)],
           todo |-> media, tx_media |-> <<>>, media_out |-> <<>>]]
    /\ last' = NoResponse
    /\ creations' = Recorded(Uuid(nextId), media, Len(media), "pending")
    /\ UNCHANGED <<visit_media, donations, memories, memory_media, memory_comments,
                   disk, avatar_urls>>

\* POST /api/visits, lines 247-258: the ids and the timestamp are drawn and
\* the INSERT opens this connection's write transaction.  A second writer
\* waits in SQLite's busy handler until the lock is free.
create_visit_insert(w, community_id, visit_date, visitor_name, kind, message, media, now) ==
    /\ req[w] = Idle
    /\ lock = 0
    /\ lock' = w
    /\ nextId' = nextId + 1
    /\ req' = [req EXCEPT ![w] =
          [op |-> "create_visit",
           args |-> [community_id |-> community_id, visit_date |-> visit_date,
                     visitor_name |-> visitor_name, kind |-> kind,
                     message |-> message, media |-> media],
           row |-> [id |-> Uuid(nextId), community_id |-> community_id,
                    visit_date |-> visit_date, visitor_name |-> visitor_name,
                    kind |-> kind, message |-> message,
                    created_at |-> IsoFormat(now)],
           todo |-> media, tx_media |-> <<>>, media_out |-> <<>>]]
    /\ last' = NoResponse
    /\ creations' = Recorded(Uuid(nextId), media, Len(media), "pending")
    /\ UNCHANGED <<tables, disk, avatar_urls>>

\* lines 262-276, one turn of the loop for a part that is stored
create_visit_media(w) ==
    /\ req[w].op = "create_visit"
    /\ req[w].todo # <<>>
    /\ LET up == Head(req[w].todo)
           mtype == MediaType(up)
           filename == UploadFilename(up, req[w].row.id, Uuid(nextId))
           url_path == UrlPath("visit_media", filename)
       IN  /\ up.filename # <<>>
           /\ disk' = WriteFile(disk, FilePath("visit_media", filename), up.bytes)
           /\ nextId' = nextId + 2
           /\ req' = [req EXCEPT ![w].todo = Tail(@),
                 ![w].tx_media = Append(@, [id |-> Uuid(nextId + 1),
                                            visit_id |-> req[w].row.id,
                                            media_type |-> mtype,
                                            file_path |-> url_path]),
                 ![w].media_out = Append(@, [media_type |-> mtype, url |-> url_path])]
    /\ last' = NoResponse
    /\ UNCHANGED <<tables, lock, avatar_urls, creations>>

\* lines 263-264: a part without a file name is passed over
create_visit_skip(w) ==
    /\ req[w].op = "create_visit"
    /\ req[w].todo # <<>>
    /\ Head(req[w].todo).filename = <<>>
    /\ req' = [req EXCEPT ![w].todo = Tail(@)]
    /\ last' = NoResponse
    /\ UNCHANGED <<tables, disk, lock, nextId, avatar_urls, creations>>

\* the failure path committing what the transaction holds so far
create_visit_media_fails_commits(w, truncated) ==
    /\ req[w].op = "create_visit"
    /\ req[w].todo # <<>>
    /\ Head(req[w].todo).filename # <<>>
    /\ visits' = Append(visits, req[w].row)
    /\ visit_media' = visit_media \o req[w].tx_media
    /\ nextId' = nextId + 1
    /\ lock' = 0
    /\ req' = [req EXCEPT ![w] = Idle]
    /\ last' = InternalError("create_visit", req[w])
    /\ creations' = Recorded(req[w].row.id, <<>>, Len(req[w].args.media), "failed")
    /\ UNCHANGED <<donations, memories, memory_media, memory_comments, disk, avatar_urls>>

\* line 267 raising (disk full, permission denied): nothing is committed; the
\* file being written is either not created or left truncated
create_visit_media_fails(w, truncated) ==
    /\ req[w].op = "create_visit"
    /\ req[w].todo # <<>>
    /\ LET up == Head(req[w].todo)
           filename == UploadFilename(up, req[w].row.id, Uuid(nextId))
       IN  /\ up.filename # <<>>
           /\ disk' = IF truncated
                      THEN TruncateFile(disk, FilePath("visit_media", filename))
                      ELSE disk
    /\ nextId' = nextId + 1
    /\ lock' = 0
    /\ req' = [req EXCEPT ![w] = Idle]
    /\ last' = InternalError("create_visit", req[w])
    /\ creations' = Recorded(req[w].row.id, <<>>, Len(req[w].args.media), "failed")
    /\ UNCHANGED <<tables, avatar_urls>>

\* lines 278-290: commit makes the row and its media rows visible together
create_visit_commit(w) ==
    /\ req[w].op = "create_visit"
    /\ req[w].todo = <<>>
    /\ visits' = Append(visits, req[w].row)
    /\ visit_media' = visit_media \o req[w].tx_media
    /\ lock' = 0
    /\ req' = [req EXCEPT ![w] = Idle]
    /\ last' = [op |-> "create_visit", args |-> req[w].args, status |-> 200,
                body |-> [id |-> req[w].row.id,
                          community_id |-> req[w].args.community_id,
                          visit_date |-> req[w].args.visit_date,
                          visitor_name |-> req[w].args.visitor_name,
                          kind |-> req[w].args.kind,
                          message |-> Some(req[w].args.message),
                          created_at |-> req[w].row.created_at,
                          media |-> req[w].media_out]]
    /\ UNCHANGED <<donations, memories, memory_media, memory_comments, disk,
                   nextId, avatar_urls>>
    /\ creations' = Recorded(req[w].row.id, req[w].args.media, Len(req[w].args.media), "committed")

\* lines 337-351
VisitOut(r, media_map) ==
    [id |-> r.id, community_id |-> r.community_id, visit_date |-> r.visit_date,
     visitor_name |-> r.visitor_name, kind |-> r.kind, message |-> Some(r.message),
     created_at |-> r.created_at, media |-> media_map[r.id]]

\* lines 318-333: SELECT ... FROM visit_media WHERE visit_id IN (ids), grouped
VisitMediaMap(ids) ==
    [vid \in ids |->
        LET mine == SelectSeq(visit_media, LAMBDA mr : mr.visit_id = vid)
        IN  [i \in DOMAIN mine |->
                [media_type |-> mine[i].media_type, url |-> mine[i].file_path]]]

ListResponse(op, community_id, body) ==
    [op |-> op, args |-> [community_id |-> community_id], status |-> 200, body |-> body]

\* GET /api/visits, lines 296-315: the first SELECT, in its own read
\* transaction; with no rows the handler answers at once (line 320)
list_visits_rows(w, community_id) ==
    /\ req[w] = Idle
    /\ LET rows == SelectVisits(community_id)
       IN  IF rows = <<>>
           THEN /\ last' = ListResponse("list_visits", community_id, <<>>)
                /\ UNCHANGED req
           ELSE /\ req' = [req EXCEPT ![w] =
                      [op |-> "list_visits", community_id |-> community_id, rows |-> rows]]
                /\ last' = NoResponse
    /\ UNCHANGED <<tables, disk, lock, nextId, avatar_urls, creations>>

\* lines 320-351: the second SELECT, a later read transaction, and the answer
list_visits_media(w) ==
    /\ req[w].op = "list_visits"
    /\ LET rows == req[w].rows
           media_map == VisitMediaMap({rows[i].id : i \in DOMAIN rows})
       IN  last' = ListResponse("list_visits", req[w].community_id,
                                [i \in DOMAIN rows |-> VisitOut(rows[i], media_map)])
    /\ req' = [req EXCEPT ![w] = Idle]
    /\ UNCHANGED <<tables, disk, lock, nextId, avatar_urls, creations>>

(* ------------------------------ donations ------------------------------ *)

\* the community taken from a form default instead of the visit
DonationCommunityDefault(row) == "default"

\* line 370: community_id = row["community_id"]
DonationCommunity(row) == row.community_id

\* amt = int(amount or 0) on an Optional[int]
IntOrZero(amount) == IF amount = None \/ amount = Some(0) THEN 0 ELSE amount[1]

\* POST /api/donations, lines 363-394, the visit found.  The visits table is
\* only ever appended to, so the row read at line 366 is still the stored row
\* when the INSERT runs.
create_donation(w, visit_id, donor_name, amount, message, now) ==
    /\ req[w] = Idle
    /\ VisitRow(visit_id) # <<>>
    /\ lock = 0
    /\ LET community_id == DonationCommunity(Head(VisitRow(visit_id)))
           did == Uuid(nextId)
           amt == IntOrZero(amount)
       IN  /\ donations' = Append(donations,
                 [id |-> did, community_id |-> community_id, visit_id |-> visit_id,
                  donor_name |-> donor_name, amount |-> amt, message |-> message,
                  created_at |-> IsoFormat(now)])
           /\ last' = [op |-> "create_donation",
                       args |-> [visit_id |-> visit_id, donor_name |-> donor_name,
                                 amount |-> amount, message |-> message],
                       status |-> 200,
                       body |-> [id |-> did, community_id |-> community_id,
                                 visit_id |-> visit_id,
                                 donor_name |-> OrNone(donor_name), amount |-> amt,
                                 message |-> OrNone(message),
                                 created_at |-> IsoFormat(now)]]
    /\ nextId' = nextId + 1
    /\ UNCHANGED <<visits, visit_media, memories, memory_media, memory_comments,
                   disk, lock, req, avatar_urls, creations>>

\* the lookup result not tested: the row is stored under the default community
create_donation_unchecked(w, visit_id, donor_name, amount, message) ==
    /\ req[w] = Idle
    /\ VisitRow(visit_id) = <<>>
    /\ donations' = Append(donations,
          [id |-> Uuid(nextId), community_id |-> "default", visit_id |-> visit_id,
           donor_name |-> donor_name, amount |-> IntOrZero(amount),
           message |-> message, created_at |-> <<48>>])
    /\ last' = [op |-> "create_donation",
                args |-> [visit_id |-> visit_id, donor_name |-> donor_name,
                          amount |-> amount, message |-> message],
                status |-> 404]
    /\ nextId' = nextId + 1
    /\ UNCHANGED <<visits, visit_media, memories, memory_media, memory_comments,
                   disk, lock, req, avatar_urls, creations>>

\* lines 365-369: no such visit
create_donation_not_found(w, visit_id, donor_name, amount, message) ==
    /\ req[w] = Idle
    /\ VisitRow(visit_id) = <<>>
    /\ last' = [op |-> "create_donation",
                args |-> [visit_id |-> visit_id, donor_name |-> donor_name,
                          amount |-> amount, message |-> message],
                status |-> 404]
    /\ UNCHANGED <<tables, disk, lock, req, nextId, avatar_urls, creations>>

\* lines 414-425
DonationOut(r) ==
    [id |-> r.id, community_id |-> r.community_id, visit_id |-> r.visit_id,
     donor_name |-> Some(r.donor_name), amount |-> r.amount,
     message |-> Some(r.message), created_at |-> r.created_at]

\* GET /api/donations, lines 400-425
list_donations(w, community_id) ==
    /\ req[w] = Idle
    /\ LET rows == SelectDonations(community_id)
       IN  last' = ListResponse("list_donations", community_id,
                                [i \in DOMAIN rows |-> DonationOut(rows[i])])
    /\ UNCHANGED <<tables, disk, lock, req, nextId, avatar_urls, creations>>

(* ------------------------------ memories ------------------------------- *)

\* POST /api/memories, lines 437-448
create_memory_insert(w, community_id, title, description, created_by, media, now) ==
    /\ req[w] = Idle
    /\ lock = 0
    /\ lock' = w
    /\ nextId' = nextId + 1
    /\ req' = [req EXCEPT ![w] =
          [op |-> "create_memory",
           args |-> [community_id |-> community_id, title |-> title,
                     description |-> description, created_by |-> created_by,
                     media |-> media],
           row |-> [id |-> Uuid(nextId), community_id |-> community_id,
                    title |-> title, description |-> description,
                    created_at |-> IsoFormat(now), created_by |-> created_by],
           todo |-> media, tx_media |-> <<>>, media_out |-> <<>>]]
    /\ last' = NoResponse
    /\ creations' = Recorded(Uuid(nextId), media, Len(media), "pending")
    /\ UNCHANGED <<tables, disk, avatar_urls>>

\* lines 452-466, one turn of the loop for a part that is stored
create_memory_media(w) ==
    /\ req[w].op = "create_memory"
    /\ req[w].todo # <<>>
    /\ LET up == Head(req[w].todo)
           mtype == MediaType(up)
           filename == UploadFilename(up, req[w].row.id, Uuid(nextId))
           url_path == UrlPath("memory_media", filename)
       IN  /\ up.filename # <<>>
           /\ disk' = WriteFile(disk, FilePath("memory_media", filename), up.bytes)
           /\ nextId' = nextId + 2
           /\ req' = [req EXCEPT ![w].todo = Tail(@),
                 ![w].tx_media = Append(@, [id |-> Uuid(nextId + 1),
                                            memory_id |-> req[w].row.id,
                                            media_type |-> mtype,
                                            file_path |-> url_path]),
                 ![w].media_out = Append(@, [media_type |-> mtype, url |-> url_path])]
    /\ last' = NoResponse
    /\ UNCHANGED <<tables, lock, avatar_urls, creations>>

\* lines 453-454
create_memory_skip(w) ==
    /\ req[w].op = "create_memory"
    /\ req[w].todo # <<>>
    /\ Head(req[w].todo).filename = <<>>
    /\ req' = [req EXCEPT ![w].todo = Tail(@)]
    /\ last' = NoResponse
    /\ UNCHANGED <<tables, disk, lock, nextId, avatar_urls, creations>>

\* line 457 raising
create_memory_media_fails(w, truncated) ==
    /\ req[w].op = "create_memory"
    /\ req[w].todo # <<>>
    /\ LET up == Head(req[w].todo)
           filename == UploadFilename(up, req[w].row.id, Uuid(nextId))
       IN  /\ up.filename # <<>>
           /\ disk' = IF truncated
                      THEN TruncateFile(disk, FilePath("memory_media", filename))
                      ELSE disk
    /\ nextId' = nextId + 1
    /\ lock' = 0
    /\ req' = [req EXCEPT ![w] = Idle]
    /\ last' = InternalError("create_memory", req[w])
    /\ creations' = Recorded(req[w].row.id, <<>>, Len(req[w].args.media), "failed")
    /\ UNCHANGED <<tables, avatar_urls>>

\* lines 468-479
create_memory_commit(w) ==
    /\ req[w].op = "create_memory"
    /\ req[w].todo = <<>>
    /\ memories' = Append(memories, req[w].row)
    /\ memory_media' = memory_media \o req[w].tx_media
    /\ lock' = 0
    /\ req' = [req EXCEPT ![w] = Idle]
    /\ last' = [op |-> "create_memory", args |-> req[w].args, status |-> 200,
                body |-> [id |-> req[w].row.id,
                          community_id |-> req[w].args.community_id,
                          title |-> req[w].args.title,
                          description |-> Some(req[w].args.description),
                          created_at |-> req[w].row.created_at,
                          created_by |-> OrNone(req[w].args.created_by),
                          media |-> req[w].media_out]]
    /\ UNCHANGED <<visits, visit_media, donations, memory_comments, disk,
                   nextId, avatar_urls>>
    /\ creations' = Recorded(req[w].row.id, req[w].args.media, Len(req[w].args.media), "committed")

\* lines 517-530
MemoryOut(r, media_map) ==
    [id |-> r.id, community_id |-> r.community_id, title |-> r.title,
     description |-> Some(r.description), created_at |-> r.created_at,
     created_by |-> Some(r.created_by), media |-> media_map[r.id]]

\* lines 498-513
MemoryMediaMap(ids) ==
    [mid \in ids |->
        LET mine == SelectSeq(memory_media, LAMBDA mr : mr.memory_id = mid)
        IN  [i \in DOMAIN mine |->
                [media_type |-> mine[i].media_type, url |-> mine[i].file_path]]]

\* GET /api/memories, lines 485-496
list_memories_rows(w, community_id) ==
    /\ req[w] = Idle
    /\ LET rows == SelectMemories(community_id)
       IN  IF rows = <<>>
           THEN /\ last' = ListResponse("list_memories", community_id, <<>>)
                /\ UNCHANGED req
           ELSE /\ req' = [req EXCEPT ![w] =
                      [op |-> "list_memories", community_id |-> community_id, rows |-> rows]]
                /\ last' = NoResponse
    /\ UNCHANGED <<tables, disk, lock, nextId, avatar_urls, creations>>

\* lines 500-530
list_memories_media(w) ==
    /\ req[w].op = "list_memories"
    /\ LET rows == req[w].rows
           media_map == MemoryMediaMap({rows[i].id : i \in DOMAIN rows})
       IN  last' = ListResponse("list_memories", req[w].community_id,
                                [i \in DOMAIN rows |-> MemoryOut(rows[i], media_map)])
    /\ req' = [req EXCEPT ![w] = Idle]
    /\ UNCHANGED <<tables, disk, lock, nextId, avatar_urls, creations>>

(* --------------------------- memory comments --------------------------- *)

\* line 550: community_id = row["community_id"]
CommentCommunity(row) == row.community_id

\* POST /api/memory_comments, lines 540-572, the memory found
create_memory_comment(w, memory_id, author_name, message, now) ==
    /\ req[w] = Idle
    /\ MemoryRow(memory_id) # <<>>
    /\ lock = 0
    /\ LET community_id == CommentCommunity(Head(MemoryRow(memory_id)))
           cid == Uuid(nextId)
       IN  /\ memory_comments' = Append(memory_comments,
                 [id |-> cid, community_id |-> community_id, memory_id |-> memory_id,
                  author_name |-> author_name, message |-> message,
                  created_at |-> IsoFormat(now)])
           /\ last' = [op |-> "create_memory_comment",
                       args |-> [memory_id |-> memory_id, author_name |-> author_name,
                                 message |-> message],
                       status |-> 200,
                       body |-> [id |-> cid, community_id |-> community_id,
                                 memory_id |-> memory_id,
                                 author_name |-> OrNone(author_name),
                                 message |-> message,
                                 created_at |-> IsoFormat(now)]]
    /\ nextId' = nextId + 1
    /\ UNCHANGED <<visits, visit_media, donations, memories, memory_media,
                   disk, lock, req, avatar_urls, creations>>

\* lines 542-549: no such memory
create_memory_comment_not_found(w, memory_id, author_name, message) ==
    /\ req[w] = Idle
    /\ MemoryRow(memory_id) = <<>>
    /\ last' = [op |-> "create_memory_comment",
                args |-> [memory_id |-> memory_id, author_name |-> author_name,
                          message |-> message],
                status |-> 404]
    /\ UNCHANGED <<tables, disk, lock, req, nextId, avatar_urls, creations>>

\* lines 592-602
MemoryCommentOut(r) ==
    [id |-> r.id, community_id |-> r.community_id, memory_id |-> r.memory_id,
     author_name |-> Some(r.author_name), message |-> r.message,
     created_at |-> r.created_at]

\* GET /api/memory_comments, lines 578-602
list_memory_comments(w, community_id) ==
    /\ req[w] = Idle
    /\ LET rows == SelectMemoryComments(community_id)
       IN  last' = ListResponse("list_memory_comments", community_id,
                                [i \in DOMAIN rows |-> MemoryCommentOut(rows[i])])
    /\ UNCHANGED <<tables, disk, lock, req, nextId, avatar_urls, creations>>

(* ------------------------------- avatars ------------------------------- *)

\* POST /api/community_avatar, lines 611-612
upload_community_avatar_rejected(w, community_id, photo) ==
    /\ req[w] = Idle
    /\ community_id = <<>>
    /\ last' = [op |-> "upload_community_avatar",
                args |-> [community_id |-> community_id, photo |-> photo],
                status |-> 400]
    /\ UNCHANGED <<tables, disk, lock, req, nextId, avatar_urls, creations>>

\* lines 613-614 with save_community_avatar, lines 148-163
upload_community_avatar(w, community_id, photo) ==
    /\ req[w] = Idle
    /\ community_id # <<>>
    /\ LET filename == AvatarFilename(photo, community_id)
           url_path == UrlPath("community_avatars", filename)
       IN  /\ disk' = WriteFile(disk, FilePath("community_avatars", filename), photo.bytes)
           /\ last' = [op |-> "upload_community_avatar",
                       args |-> [community_id |-> community_id, photo |-> photo],
                       status |-> 200,
                       body |-> [community_id |-> community_id, photo_url |-> url_path]]
           /\ avatar_urls' = [c \in DOMAIN avatar_urls \cup {community_id} |->
                 IF c = community_id
                 THEN (IF c \in DOMAIN avatar_urls THEN avatar_urls[c] ELSE {}) \cup {url_path}
                 ELSE avatar_urls[c]]
    /\ UNCHANGED <<tables, lock, req, nextId, creations>>

(* --------------------------- specifications ---------------------------- *)

Init ==
    /\ visits = <<>>
    /\ visit_media = <<>>
    /\ donations = <<>>
    /\ memories = <<>>
    /\ memory_media = <<>>
    /\ memory_comments = <<>>
    /\ disk = <<>>
    /\ lock = 0
    /\ req = [w \in Workers |-> Idle]
    /\ last = NoResponse
    /\ nextId = 0
    /\ avatar_urls = <<>>
    /\ creations = <<>>

\* what a client fills in: nothing optional, or everything
DonationForms ==
    {[donor_name |-> "", amount |-> None, message |-> ""],
     [donor_name |-> "x", amount |-> Some(500), message |-> "x"]}

\* The four entity kinds without attachments, one request at a time: creates,
\* lookups and lists.
Next ==
    \E w \in Sequential :
        \/ /\ nextId < MaxIds
           /\ \E c \in Communities, s \in VisitStamps :
                  create_visit_insert(w, c, s.visit_date, "Aya", "visit", "", <<>>, s.now)
        \/ create_visit_commit(w)
        \/ \E c \in Communities : list_visits_rows(w, c)
        \/ list_visits_media(w)
        \/ /\ nextId < MaxIds
           /\ \E v \in 0..MaxIds, f \in DonationForms, now \in Times :
                  create_donation(w, v, f.donor_name, f.amount, f.message, now)
        \/ \E v \in {0, nextId} :
               create_donation_not_found(w, v, "x", Some(500), "x")
        \/ \E c \in Communities : list_donations(w, c)
        \/ /\ nextId < MaxIds
           /\ \E c \in Communities, s \in MemoryStamps :
                  create_memory_insert(w, c, "t", "", s.created_by, <<>>, s.now)
        \/ create_memory_commit(w)
        \/ \E c \in Communities : list_memories_rows(w, c)
        \/ list_memories_media(w)
        \/ /\ nextId < MaxIds
           /\ \E m \in 0..MaxIds, n \in OptionalTexts, now \in Times :
                  create_memory_comment(w, m, n, "hello", now)
        \/ \E m \in {0, nextId} :
               create_memory_comment_not_found(w, m, "x", "hello")
        \/ \E c \in Communities : list_memory_comments(w, c)

Spec == Init /\ [][Next]_vars

\* Visits and memories with attachments, stored part by part, next to lists.
NextMedia ==
    \/ \E w \in Writers :
        \/ /\ Cardinality(DOMAIN creations) < MaxCreates
           /\ \E media \in UploadLists :
                  /\ PartsSent + Len(media) <= MaxParts
                  /\ create_visit_insert(w, "c1", <<50>>, "Aya", "visit", "", media,
                                      [sec |-> 0, usec |-> 0])
        \/ create_visit_media(w)
        \/ create_visit_skip(w)
        \/ \E truncated \in BOOLEAN : create_visit_media_fails(w, truncated)
        \/ create_visit_commit(w)
        \/ /\ Cardinality(DOMAIN creations) < MaxCreates
           /\ \E media \in UploadLists :
                  /\ PartsSent + Len(media) <= MaxParts
                  /\ create_memory_insert(w, "c1", "t", "", "", media,
                                       [sec |-> 0, usec |-> 0])
        \/ create_memory_media(w)
        \/ create_memory_skip(w)
        \/ \E truncated \in BOOLEAN : create_memory_media_fails(w, truncated)
        \/ create_memory_commit(w)
    \/ \E w \in Readers :
        \/ list_visits_rows(w, "c1")
        \/ list_visits_media(w)
        \/ list_memories_rows(w, "c1")
        \/ list_memories_media(w)

SpecMedia == Init /\ [][NextMedia]_vars

\* Avatar uploads.
NextAvatar ==
    \E w \in Workers, c \in AvatarCommunities, photo \in AvatarPhotos :
        \/ upload_community_avatar_rejected(w, c, photo)
        \/ upload_community_avatar(w, c, photo)

SpecAvatar == Init /\ [][NextAvatar]_vars

(* ------------------------------- claims -------------------------------- *)

IsList(op) == last.op = op /\ last.status = 200

Created(op) == last.op = op /\ last.status = 200

\* C1: every stored donation carries the community_id of the visit its
\* visit_id names, every stored memory comment that of the memory its
\* memory_id names, and a create response reports that same value; the
\* request carries no community_id of its own.
C1_DerivedCommunity ==
    /\ \A i \in DOMAIN donations :
           \E j \in DOMAIN visits :
               /\ visits[j].id = donations[i].visit_id
               /\ visits[j].community_id = donations[i].community_id
    /\ \A i \in DOMAIN memory_comments :
           \E j \in DOMAIN memories :
               /\ memories[j].id = memory_comments[i].memory_id
               /\ memories[j].community_id = memory_comments[i].community_id
    /\ Created("create_donation") =>
           /\ "community_id" \notin DOMAIN last.args
           /\ \E j \in DOMAIN visits :
                  /\ visits[j].id = last.args.visit_id
                  /\ visits[j].community_id = last.body.community_id
    /\ Created("create_memory_comment") =>
           /\ "community_id" \notin DOMAIN last.args
           /\ \E j \in DOMAIN memories :
                  /\ memories[j].id = last.args.memory_id
                  /\ memories[j].community_id = last.body.community_id

\* a donation was just made to a visit of c2 while a visit of c1 is stored too
C1_Witness ==
    /\ Created("create_donation")
    /\ last.body.community_id = "c2"
    /\ \E j \in DOMAIN visits : visits[j].community_id = "c1"

\* C2: a createDonation whose visit_id names no stored visit, and a
\* createMemoryComment whose memory_id names no stored memory, is answered 404
\* and leaves every table as it was.
C2_NotFoundPersistsNothing ==
    [][/\ (/\ last'.op = "create_donation"
           /\ \A j \in DOMAIN visits : visits[j].id # last'.args.visit_id)
          => (last'.status = 404 /\ UNCHANGED tables)
       /\ (/\ last'.op = "create_memory_comment"
           /\ \A j \in DOMAIN memories : memories[j].id # last'.args.memory_id)
          => (last'.status = 404 /\ UNCHANGED tables)]_vars

\* a donation to an unknown visit was just refused while donations are stored
C2_Witness ==
    /\ last.op = "create_donation"
    /\ last.status = 404
    /\ donations # <<>>

PairLess(a, b) ==
    \/ TextLess(a.visit_date, b.visit_date)
    \/ a.visit_date = b.visit_date /\ TextLess(a.created_at, b.created_at)

\* C3: a listVisits result never has an entry followed by one with a larger
\* (visit_date, created_at) pair; listDonations and listMemories results are
\* in non-increasing created_at order, listMemoryComments results in
\* non-decreasing created_at order.
C3_ListsSorted ==
    /\ IsList("list_visits") =>
           \A i, j \in DOMAIN last.body :
               i < j => ~PairLess(last.body[i], last.body[j])
    /\ (IsList("list_donations") \/ IsList("list_memories")) =>
           \A i, j \in DOMAIN last.body :
               i < j => ~TextLess(last.body[i].created_at, last.body[j].created_at)
    /\ IsList("list_memory_comments") =>
           \A i, j \in DOMAIN last.body :
               i < j => ~TextLess(last.body[j].created_at, last.body[i].created_at)

\* a visit list whose first two entries share the visit date and differ in
\* created_at, the later one stored first
C3_Witness ==
    /\ IsList("list_visits")
    /\ Len(last.body) >= 2
    /\ last.body[1].visit_date = last.body[2].visit_date
    /\ last.body[1].created_at # last.body[2].created_at
    /\ last.body[1].id < last.body[2].id

Ids(rows) == {rows[i].id : i \in DOMAIN rows}

OfCommunity(rows, c) == {rows[i] : i \in {k \in DOMAIN rows : rows[k].community_id = c}}

ListedTable ==
    CASE last.op = "list_visits" -> visits
      [] last.op = "list_donations" -> donations
      [] last.op = "list_memories" -> memories
      [] last.op = "list_memory_comments" -> memory_comments

\* C4: a list answers 200 with one entry for each stored record of the asked
\* community and no other entry: the ids are those of the stored rows of that
\* community, no id comes twice, every entry carries the asked community_id
\* and its row's created_at; with no such row the body is the empty sequence.
C4_ListIsCommunityRows ==
    last.op \in {"list_visits", "list_donations", "list_memories", "list_memory_comments"} =>
        /\ last.status = 200
        /\ Ids(last.body) = {r.id : r \in OfCommunity(ListedTable, last.args.community_id)}
        /\ Cardinality(Ids(last.body)) = Len(last.body)
        /\ \A i \in DOMAIN last.body :
               /\ last.body[i].community_id = last.args.community_id
               /\ \E r \in OfCommunity(ListedTable, last.args.community_id) :
                      r.id = last.body[i].id /\ r.created_at = last.body[i].created_at
        /\ OfCommunity(ListedTable, last.args.community_id) = {} => last.body = <<>>

\* a visit list answered with the two visits of its community while a visit
\* of the other community is stored too
C4_Witness ==
    /\ IsList("list_visits")
    /\ Len(last.body) = 2
    /\ Len(visits) = 3

\* what the matching list would answer for the community of the record just
\* created
ListedNow ==
    CASE last.op = "create_donation" ->
             LET rows == SelectDonations(last.body.community_id)
             IN  {DonationOut(rows[i]) : i \in DOMAIN rows}
      [] last.op = "create_memory" ->
             LET rows == SelectMemories(last.body.community_id)
                 media_map == MemoryMediaMap(Ids(rows))
             IN  {MemoryOut(rows[i], media_map) : i \in DOMAIN rows}
      [] last.op = "create_memory_comment" ->
             LET rows == SelectMemoryComments(last.body.community_id)
             IN  {MemoryCommentOut(rows[i]) : i \in DOMAIN rows}

\* C10: right after a successful createDonation, createMemory or
\* createMemoryComment, the list of the record's community holds an entry with
\* the response's id that equals the response in every field.
C10_CreateEqualsListed ==
    (\/ Created("create_donation")
     \/ Created("create_memory")
     \/ Created("create_memory_comment")) =>
        \E e \in ListedNow : e.id = last.body.id /\ e = last.body


\* the parts of a request that carry a file name, in the order sent
Named(media) == SelectSeq(media, LAMBDA up : up.filename # <<>>)

\* the association rows stored for an entity
MediaRows(op, id) ==
    IF op \in {"create_visit", "list_visits"}
    THEN SelectSeq(visit_media, LAMBDA mr : mr.visit_id = id)
    ELSE SelectSeq(memory_media, LAMBDA mr : mr.memory_id = id)

CreatedWithMedia == Created("create_visit") \/ Created("create_memory")

\* C5 as stated: a successful createVisit or createMemory sent with N parts
\* answers N media entries, entry i resolving to the bytes of part i, and
\* stores N association rows.
C5_MediaPerAttachedFile ==
    CreatedWithMedia =>
        /\ Len(last.body.media) = Len(last.args.media)
        /\ \A i \in DOMAIN last.body.media :
               /\ i \in DOMAIN last.args.media
               /\ StaticFile(last.body.media[i].url) = last.args.media[i].bytes
        /\ Len(MediaRows(last.op, last.body.id)) = Len(last.args.media)

\* C5 amended: with N the number of parts that carry a file name, the answer
\* has N media entries, entry i resolving to the bytes of the i-th such part,
\* and N association rows are stored, row i holding entry i's url.
C5_MediaPerNamedFile ==
    CreatedWithMedia =>
        LET named == Named(last.args.media)
            rows == MediaRows(last.op, last.body.id)
        IN  /\ Len(last.body.media) = Len(named)
            /\ \A i \in DOMAIN last.body.media :
                   StaticFile(last.body.media[i].url) = named[i].bytes
            /\ Len(rows) = Len(named)
            /\ \A i \in DOMAIN rows : rows[i].file_path = last.body.media[i].url

\* a create answered for a nameless part followed by a named one, whose bytes
\* the only media entry serves
C5_Witness ==
    /\ CreatedWithMedia
    /\ Len(last.args.media) = 2
    /\ last.args.media[1].filename = <<>>
    /\ Len(last.body.media) = 1
    /\ StaticFile(last.body.media[1].url) = last.args.media[2].bytes

\* the allow-list the claim speaks of
VideoExtensions == {<<".", "mp4">>, <<".", "mov">>, <<".", "webm">>}

ClaimedMediaType(up) ==
    IF MediaType(up) = "video" THEN "video"
    ELSE IF up.content_type = <<>> /\ StoredExt(up.filename, <<>>) \in VideoExtensions
         THEN "video"
         ELSE "image"

\* C6: every stored part is recorded as "video" when its declared content type
\* starts with "video/" or, with no content type declared, when its extension
\* is a video extension, and as "image" otherwise.
C6_MediaTypeByTypeOrExtension ==
    CreatedWithMedia =>
        \A i \in DOMAIN last.body.media :
            last.body.media[i].media_type = ClaimedMediaType(Named(last.args.media)[i])

\* C7: all avatar uploads of one community answer the same photo_url, which
\* then serves the bytes of the latest upload, so a community has one avatar
\* file at most.
C7_OneAvatarPath ==
    /\ \A c \in DOMAIN avatar_urls : Cardinality(avatar_urls[c]) <= 1
    /\ (last.op = "upload_community_avatar" /\ last.status = 200) =>
           StaticFile(last.body.photo_url) = last.args.photo.bytes

EntityRows == Ids(visits) \cup Ids(memories)

MediaOwners ==
    {visit_media[i].visit_id : i \in DOMAIN visit_media} \cup
    {memory_media[i].memory_id : i \in DOMAIN memory_media}

RowsOf(id) ==
    SelectSeq(visit_media, LAMBDA mr : mr.visit_id = id) \o
    SelectSeq(memory_media, LAMBDA mr : mr.memory_id = id)

\* C8: a createVisit or createMemory that has not committed, and one that
\* failed while storing a part, has no entity row and no association row in
\* the tables; an entity that is in the tables has one association row per
\* named part it was sent; and when a create fails, the parts stored before
\* the failing one are on disk with their bytes.
C8_AllOrNothing ==
    /\ \A id \in DOMAIN creations :
           IF creations[id].outcome = "committed"
           THEN Len(RowsOf(id)) = Len(Named(creations[id].media))
           ELSE id \notin EntityRows /\ id \notin MediaOwners
    /\ EntityRows \subseteq DOMAIN creations
    /\ (last.status = 500 /\ last.op \in {"create_visit", "create_memory"}) =>
           /\ creations[last.id].outcome = "failed"
           /\ \A i \in DOMAIN last.stored :
                  StaticFile(last.stored[i].url) = Named(last.args.media)[i].bytes

\* a create failed on its second named part after it stored the first
C8_Witness ==
    /\ last.status = 500
    /\ last.op \in {"create_visit", "create_memory"}
    /\ Len(last.stored) = 1
    /\ last.id \notin EntityRows

\* C9: every entity in a listVisits or listMemories answer carries one media
\* entry per named part it was created with, in the order sent, each under
\* the entity's own prefix and serving that part's bytes, whatever creates
\* ran between the list's two queries.
C9_ListedMediaComplete ==
    (IsList("list_visits") \/ IsList("list_memories")) =>
        \A k \in DOMAIN last.body :
            LET e == last.body[k]
                named == Named(creations[e.id].media)
            IN  /\ Len(e.media) = Len(named)
                /\ \A i \in DOMAIN e.media :
                       /\ e.media[i].url[3].prefix = e.id
                       /\ StaticFile(e.media[i].url) = named[i].bytes

\* a visit list answered with an entity that has media while a visit with
\* media, committed after the list's first query, is missing from it
C9_Witness ==
    /\ IsList("list_visits")
    /\ \E k \in DOMAIN last.body : last.body[k].media # <<>>
    /\ \E i \in DOMAIN visit_media : visit_media[i].visit_id \notin Ids(last.body)

====
